---- MODULE Spec2Model ----
(***************************************************************************)
(* Worker-side task creation and push-stream handling of lrmr, the node   *)
(* manager and the running job of a master.                               *)
(*                                                                         *)
(* One worker process is modelled: its running-tasks registry, the        *)
(* CreateTasks RPC with one createTask goroutine per partition ID, the    *)
(* PushData stream handler, the task executors the worker starts, and the *)
(* coordinator keys written on the way (tasks/<id>, status/tasks/<ref>,   *)
(* the totalTasks counters). Its node manager registers the node under a  *)
(* lease, refreshes it on a ticker, caches outbound channels, and is torn *)
(* down by Worker.Stop.                                                   *)
(*                                                                         *)
(* Spec is the worker's task handling, NodeSpec the registration and      *)
(* teardown of the node over a clock, ConnSpec the connection cache,      *)
(* JobSpec the RunningJob handles of a master.                             *)
(***************************************************************************)
EXTENDS Integers, Sequences, FiniteSets, TLC

\* ------------------------------------------------------------------ bounds
MaxReq == 2        \* CreateTasks requests the worker receives
MaxParts == 2      \* partition IDs in one request
MaxTasks == 2      \* partition IDs in all requests together
MaxPush == 2       \* PushData streams the worker receives
Steps == 2         \* clock steps in one LivenessProbeInterval
MaxDial == 3       \* channels dialed by the node manager
MaxConn == 2       \* Connect calls in progress at once
MaxErrs == 2       \* errors recorded in a final status

\* --------------------------------------------------------------- constants
JobID == "J"
SelfHost == "self"                 \* w.nodeManager.Self().Host
PeerHost == "peer"
Hosts == {SelfHost, PeerHost}
Stages == {"A", "B"}               \* stage A feeds stage B feeds "C"
PartIDs == {"p0", "p1"}
\* The partition IDs of the output plan (keys of Output.PartitionToHost).
OutParts == {"p0"}

OutputStage(s) == IF s = "A" THEN "B" ELSE "C"

\* task.Reference().String() / path.Join(jobID, stage, id)
Reference(s, p) == <<JobID, s, p>>
Refs == {Reference(s, p) : s \in Stages \cup {"C"}, p \in PartIDs}
NoRef == <<"", "", "">>

ReqIds == 1..MaxReq
PushIds == 1..MaxPush
\* A createTask goroutine is <<request, index in PartitionIDs>>; the executor
\* it constructs carries the same name.
Slots == ReqIds \X (1..MaxParts)
NoSlot == <<0, 0>>

PartSeqs == UNION {[1..n -> PartIDs] : n \in 1..MaxParts}
\* req.Output.PartitionToHost. The tasks of stage "C" never live on a worker.
OutPlans(s) == IF s = "A" THEN [OutParts -> Hosts] ELSE [OutParts -> {PeerHost}]
Requests == UNION {{[stage |-> s, parts |-> ps, out |-> o] :
                      ps \in PartSeqs, o \in OutPlans(s)} : s \in Stages}
NoRequest == [stage |-> "", parts |-> <<>>, out |-> [id \in OutParts |-> ""]]

Terminal == {"Succeeded", "Failed"}

\* ManagerOptions.LivenessProbeInterval, in clock steps.
LivenessProbeInterval == Steps
\* node.Type
NodeTypes == {"Master", "Worker"}
\* The registering node: Node{ID, Host, Type}.
SelfID == "n1"
SelfType == "Worker"
ChanIds == 1..MaxDial
NoChan == 0
ConnIds == 1..MaxConn

\* The jobs a master runs; their handles share no state.
JobIds == {"j1", "j2"}
\* The errors a job records.
Errs == {"e1", "e2"}
\* job.Status as WaitForCompletion delivers it: a terminal state, and the
\* recorded errors of a failed job.
FinalStatuses ==
  {[status |-> "Succeeded", errors |-> <<>>]}
    \cup {[status |-> "Failed", errors |-> e] :
            e \in UNION {[1..n -> Errs] : n \in 1..MaxErrs}}
\* r.finalStatus == nil
NoStatus == [status |-> "", errors |-> <<>>]

VARIABLES
  rpc,           \* request -> "unused" | "running" | "ok" | "err"
  req,           \* request -> its CreateTasksRequest
  gpc,           \* createTask goroutine -> position in createTask
  gsink,         \* createTask goroutine -> output partition -> sink kind
  execState,     \* executor -> "none" | "created" | Pending .. Failed
  runningTasks,  \* w.runningTasks: reference -> executor
  pipes,         \* executor -> local pipes bound to its Input (by owner)
  pushes,        \* executor -> push streams bound to its Input (by handler)
  taskRec,       \* coordinator: references with a tasks/<id> record
  status,        \* coordinator: status/tasks/<ref>
  stageTotal,    \* coordinator: status/stages/<job>/<stage>/totalTasks
  nodeTotal,     \* coordinator: status/node/<nodeID>/totalTasks
  hpc,           \* PushData handler -> position in PushData
  hres,          \* PushData handler -> what the RPC returned
  htask,         \* PushData handler -> h.TaskID
  hexec,         \* PushData handler -> exec (the executor it looked up)
  nodeRec,       \* coordinator: nodes/<SelfID> is present
  leaseLeft,     \* clock steps left of the lease nodes/<SelfID> is bound to
  age,           \* clock steps since nodes/<SelfID> was last put (saturating)
  self,          \* m.self: "nil" | "set"
  ticker,        \* m.livenessProveTick: "nil" | "running" | "stopped"
  tickLeft,      \* clock steps to the ticker's next tick
  tickChan,      \* a tick is buffered in the ticker's channel
  regpc,         \* RegisterSelf: "idle" | "grant" | "put" | "done" | "failed"
  reglease,      \* clock steps left of the lease RegisterSelf was granted
  fpc,           \* refresher goroutine: position in sendPeriodicLivenessProve
  fself,         \* refresher: the m.self it passed to registerOrRefresh
  flease,        \* clock steps left of the lease the refresher was granted
  refreshFailed, \* a refresh has returned an error
  upc,           \* UnregisterNode: position
  spc,           \* Worker.Stop: position
  sres,          \* Worker.Stop: what it returned
  serverStopped, \* w.server.Stop() was called
  conns,         \* m.conns: host -> channel
  chanHost,      \* channel -> host it was dialed to ("" when not dialed)
  chanState,     \* channel -> connectivity state
  cpc,           \* Connect call -> position
  chost,         \* Connect call -> host
  cret,          \* Connect call -> channel returned
  clpc,          \* Close: position
  clseen,        \* Close: hosts the Range has visited
  clerr,         \* Close: the error it returns
  closing,       \* Close: channels cached when it was called
  finalStatus,   \* job -> r.finalStatus
  delivered,     \* job -> the status Wait last received from the tracker
  wpc,           \* job -> position in Wait / Abort
  wret           \* job -> what Wait returned

workerVars == <<rpc, req, gpc, gsink, execState, runningTasks, pipes, pushes,
                taskRec, status, stageTotal, nodeTotal, hpc, hres, htask, hexec>>

createVars == <<rpc, req, gpc, gsink>>
pushVars == <<hpc, hres, htask, hexec>>
cntVars == <<stageTotal, nodeTotal>>
crdVars == <<taskRec, status, stageTotal, nodeTotal>>

regVars == <<regpc, reglease>>
refVars == <<fpc, fself, flease, refreshFailed>>
tickVars == <<ticker, tickLeft, tickChan>>
recVars == <<nodeRec, leaseLeft, age>>
stopVars == <<spc, sres, serverStopped>>
nodeVars == <<recVars, self, tickVars, regVars, refVars, upc, stopVars>>

chanVars == <<conns, chanHost, chanState>>
callVars == <<cpc, chost, cret>>
closeVars == <<clpc, clseen, clerr, closing>>
connVars == <<chanVars, callVars, closeVars>>

jobVars == <<finalStatus, delivered, wpc, wret>>

vars == <<workerVars, nodeVars, connVars, jobVars>>

\* The RunningJob handles as the master returns them.
JobInit ==
  /\ finalStatus = [j \in JobIds |-> NoStatus]
  /\ delivered = [j \in JobIds |-> NoStatus]
  /\ wpc = [j \in JobIds |-> "idle"]
  /\ wret = [j \in JobIds |-> "none"]

\* New / NewManager: no node is registered, nothing has been started.
NodeInit ==
  /\ nodeRec = FALSE
  /\ leaseLeft = 0
  /\ age = 0
  /\ self = "nil"
  /\ ticker = "nil"
  /\ tickLeft = 0
  /\ tickChan = FALSE
  /\ regpc = "idle"
  /\ reglease = 0
  /\ fpc = "none"
  /\ fself = "nil"
  /\ flease = 0
  /\ refreshFailed = FALSE
  /\ upc = "idle"
  /\ spc = "idle"
  /\ sres = "none"
  /\ serverStopped = FALSE

\* No Connect and no Close call is in progress.
CallsInit ==
  /\ cpc = [k \in ConnIds |-> "idle"]
  /\ chost = [k \in ConnIds |-> ""]
  /\ cret = [k \in ConnIds |-> NoChan]
  /\ clpc = "idle"
  /\ clseen = {}
  /\ clerr = FALSE
  /\ closing = {}

\* NewManager: the connection cache is empty.
ConnInit ==
  /\ conns = [h \in Hosts |-> NoChan]
  /\ chanHost = [c \in ChanIds |-> ""]
  /\ chanState = [c \in ChanIds |-> "none"]
  /\ CallsInit

WorkerInit ==
  /\ rpc = [r \in ReqIds |-> "unused"]
  /\ req = [r \in ReqIds |-> NoRequest]
  /\ gpc = [g \in Slots |-> "none"]
  /\ gsink = [g \in Slots |-> [id \in OutParts |-> "none"]]
  /\ execState = [g \in Slots |-> "none"]
  /\ runningTasks = [t \in Refs |-> NoSlot]
  /\ pipes = [g \in Slots |-> {}]
  /\ pushes = [g \in Slots |-> {}]
  /\ taskRec = {}
  /\ status = [t \in Refs |-> "None"]
  /\ stageTotal = [s \in Stages |-> 0]
  /\ nodeTotal = 0
  /\ hpc = [h \in PushIds |-> "idle"]
  /\ hres = [h \in PushIds |-> "none"]
  /\ htask = [h \in PushIds |-> NoRef]
  /\ hexec = [h \in PushIds |-> NoSlot]

Init == WorkerInit /\ NodeInit /\ ConnInit /\ JobInit

\* The reference of the task goroutine g creates (job.NewTask(...).Reference()).
TaskRef(g) == Reference(req[g[1]].stage, req[g[1]].parts[g[2]])

\* The goroutines of request r.
Goroutines(r) == {<<r, i>> : i \in 1..Len(req[r].parts)}

\* ------------------------------------------------------------- CreateTasks

\* Requests are numbered in the order the server accepts them.
Arrived(r) == \A x \in 1..(r - 1) : rpc[x] # "unused"

\* CreateTasks, lines 99-113: the request is decoded and one createTask
\* goroutine per entry of req.PartitionIDs is started.
CreateTasks(r, q) ==
  /\ rpc[r] = "unused"
  /\ Arrived(r)
  /\ Cardinality({g \in Slots : gpc[g] # "none"}) + Len(q.parts) <= MaxTasks
  /\ rpc' = [rpc EXCEPT ![r] = "running"]
  /\ req' = [req EXCEPT ![r] = q]
  /\ gpc' = [g \in Slots |->
               IF g[1] = r /\ g[2] <= Len(q.parts) THEN "create" ELSE gpc[g]]
  /\ UNCHANGED <<gsink, execState, runningTasks, pipes, pushes>>
  /\ UNCHANGED crdVars
  /\ UNCHANGED pushVars
  /\ UNCHANGED <<jobVars, nodeVars, connVars>>

\* CreateTasks, lines 101-107: the stage JSON or the broadcasts do not decode.
CreateTasksInvalid(r) ==
  /\ rpc[r] = "unused"
  /\ Arrived(r)
  /\ rpc' = [rpc EXCEPT ![r] = "err"]
  /\ UNCHANGED <<req, gpc, gsink, execState, runningTasks, pipes, pushes>>
  /\ UNCHANGED crdVars
  /\ UNCHANGED pushVars
  /\ UNCHANGED <<jobVars, nodeVars, connVars>>

\* The transaction without the per-node counter.
CommitTaskStageOnly(t) ==
  /\ taskRec' = taskRec \cup {t}
  /\ status' = [status EXCEPT ![t] = "Pending"]
  /\ stageTotal' = [stageTotal EXCEPT ![t[2]] = @ + 1]
  /\ nodeTotal' = nodeTotal

\* jobManager.CreateTask: one transaction puts the task record and the
\* initial status (both unconditionally) and increments the totalTasks
\* counters of the task's stage and of the task's node.
CommitTask(t) ==
  /\ taskRec' = taskRec \cup {t}
  /\ status' = [status EXCEPT ![t] = "Pending"]
  /\ stageTotal' = [stageTotal EXCEPT ![t[2]] = @ + 1]
  /\ nodeTotal' = nodeTotal + 1

\* createTask, lines 122-127, the commit succeeded.
createTaskCommit(g) ==
  /\ gpc[g] = "create"
  /\ CommitTask(TaskRef(g))
  /\ gpc' = [gpc EXCEPT ![g] = "output"]
  /\ UNCHANGED <<rpc, req, gsink, execState, runningTasks, pipes, pushes>>
  /\ UNCHANGED pushVars
  /\ UNCHANGED <<jobVars, nodeVars, connVars>>

\* createTask, lines 123-126: the commit failed (coordinator error, or the
\* errgroup's context was cancelled by a sibling's failure).
createTaskCommitFail(g) ==
  /\ gpc[g] = "create"
  /\ gpc' = [gpc EXCEPT ![g] = "err"]
  /\ UNCHANGED <<rpc, req, gsink, execState, runningTasks, pipes, pushes>>
  /\ UNCHANGED crdVars
  /\ UNCHANGED pushVars
  /\ UNCHANGED <<jobVars, nodeVars, connVars>>

getRunningTask(taskID) == runningTasks[taskID]

\* The lookup alone decides; the host of the partition map is not compared.
UseLocalPipeAnyHost(host, taskID) == getRunningTask(taskID) # NoSlot

\* newOutputWriter, lines 156-158: the sink is a local pipe.
UseLocalPipe(host, taskID) ==
  /\ host = SelfHost
  /\ getRunningTask(taskID) # NoSlot

\* path.Join(jobID, cur.Output.Stage, id)
DownstreamTask(g, id) == Reference(OutputStage(req[g[1]].stage), id)

\* newOutputWriter, one iteration of the loop over o.PartitionToHost (Go
\* visits the entries in any order).
newOutputWriter(g, id) ==
  /\ gpc[g] = "output"
  /\ gsink[g][id] = "none"
  /\ LET host == req[g[1]].out[id]
         taskID == DownstreamTask(g, id)
     IN IF UseLocalPipe(host, taskID)
        THEN /\ gsink' = [gsink EXCEPT ![g][id] = "local"]
             /\ pipes' = [pipes EXCEPT ![getRunningTask(taskID)] = @ \cup {g}]
        ELSE /\ gsink' = [gsink EXCEPT ![g][id] = "push"]
             /\ pipes' = pipes
  /\ UNCHANGED <<rpc, req, gpc, execState, runningTasks, pushes>>
  /\ UNCHANGED crdVars
  /\ UNCHANGED pushVars
  /\ UNCHANGED <<jobVars, nodeVars, connVars>>

\* newOutputWriter, lines 163-166: output.NewPushStream fails (the dial or
\* the stream open); createTask returns Internal at line 133.
newOutputWriterFail(g, id) ==
  /\ gpc[g] = "output"
  /\ gsink[g][id] = "none"
  /\ ~UseLocalPipe(req[g[1]].out[id], DownstreamTask(g, id))
  /\ gpc' = [gpc EXCEPT ![g] = "err"]
  /\ UNCHANGED <<rpc, req, gsink, execState, runningTasks, pipes, pushes>>
  /\ UNCHANGED crdVars
  /\ UNCHANGED pushVars
  /\ UNCHANGED <<jobVars, nodeVars, connVars>>

OutputBuilt(g) == \A id \in OutParts : gsink[g][id] # "none"

\* createTask, lines 144-146.
Register(t, g) == [runningTasks EXCEPT ![t] = g]

\* createTask, lines 136-146: the executor is constructed and recorded.
createTaskRegister(g) ==
  /\ gpc[g] = "output"
  /\ OutputBuilt(g)
  /\ execState' = [execState EXCEPT ![g] = "created"]
  /\ runningTasks' = Register(TaskRef(g), g)
  /\ gpc' = [gpc EXCEPT ![g] = "launch"]
  /\ UNCHANGED <<rpc, req, gsink, pipes, pushes>>
  /\ UNCHANGED crdVars
  /\ UNCHANGED pushVars
  /\ UNCHANGED <<jobVars, nodeVars, connVars>>

\* createTask, lines 137-143: NewTaskExecutor fails; the failure is
\* reported (the report itself may fail) and createTask returns the error.
createTaskExecutorFail(g, reported) ==
  /\ gpc[g] = "output"
  /\ OutputBuilt(g)
  /\ status' = IF reported THEN [status EXCEPT ![TaskRef(g)] = "Failed"]
               ELSE status
  /\ gpc' = [gpc EXCEPT ![g] = "err"]
  /\ UNCHANGED <<rpc, req, gsink, execState, runningTasks, pipes, pushes, taskRec>>
  /\ UNCHANGED cntVars
  /\ UNCHANGED pushVars
  /\ UNCHANGED <<jobVars, nodeVars, connVars>>

\* createTask, lines 148-149: go exec.Run().
createTaskLaunch(g) ==
  /\ gpc[g] = "launch"
  /\ execState' = [execState EXCEPT ![g] = "Pending"]
  /\ gpc' = [gpc EXCEPT ![g] = "ok"]
  /\ UNCHANGED <<rpc, req, gsink, runningTasks, pipes, pushes>>
  /\ UNCHANGED crdVars
  /\ UNCHANGED pushVars
  /\ UNCHANGED <<jobVars, nodeVars, connVars>>

\* The wait ends with the first goroutine that returns.
WaitFirst(r) == \E g \in Goroutines(r) : gpc[g] \in {"ok", "err"}

\* wg.Wait(), line 114: every goroutine of the group has returned.
WaitDone(r) == \A g \in Goroutines(r) : gpc[g] \in {"ok", "err"}

\* All-or-nothing: a failed request takes its executors out of the registry.
RegistryOnReturnAborting(r) ==
  IF \E g \in Goroutines(r) : gpc[g] = "err"
  THEN [t \in Refs |-> IF runningTasks[t][1] = r THEN NoSlot ELSE runningTasks[t]]
  ELSE runningTasks

\* The registry after CreateTasks returned (lines 114-118 touch nothing).
RegistryOnReturn(r) == runningTasks

\* The executors after CreateTasks returned (lines 114-118 cancel nothing).
ExecutorsOnReturn(r) == execState

\* CreateTasks, lines 114-118.
CreateTasksReturn(r) ==
  /\ rpc[r] = "running"
  /\ WaitDone(r)
  /\ rpc' = [rpc EXCEPT ![r] =
               IF \E g \in Goroutines(r) : gpc[g] = "err" THEN "err" ELSE "ok"]
  /\ runningTasks' = RegistryOnReturn(r)
  /\ execState' = ExecutorsOnReturn(r)
  /\ UNCHANGED <<req, gpc, gsink, pipes, pushes>>
  /\ UNCHANGED crdVars
  /\ UNCHANGED pushVars
  /\ UNCHANGED <<jobVars, nodeVars, connVars>>

\* ---------------------------------------------------------------- executor

\* The executors that carry reference t.
ExecutorsOf(t) == {e \in Slots : gpc[e] # "none" /\ TaskRef(e) = t}

\* TaskExecutor.Run, start: the status becomes Running.
ExecRun(e) ==
  /\ execState[e] = "Pending"
  /\ execState' = [execState EXCEPT ![e] = "Running"]
  /\ status' = [status EXCEPT ![TaskRef(e)] = "Running"]
  /\ UNCHANGED createVars
  /\ UNCHANGED <<runningTasks, pipes, pushes, taskRec>>
  /\ UNCHANGED cntVars
  /\ UNCHANGED pushVars
  /\ UNCHANGED <<jobVars, nodeVars, connVars>>

\* TaskExecutor.Run, end: the function returned (nil, an error or a panic);
\* the output writer is closed, which closes the local pipes it owns, and
\* the terminal status is written.
ExecFinish(e, result) ==
  /\ execState[e] = "Running"
  /\ execState' = [execState EXCEPT ![e] = result]
  /\ pipes' = [x \in Slots |-> pipes[x] \ {e}]
  /\ status' = [status EXCEPT ![TaskRef(e)] = result]
  /\ UNCHANGED createVars
  /\ UNCHANGED <<runningTasks, pushes, taskRec>>
  /\ UNCHANGED cntVars
  /\ UNCHANGED pushVars
  /\ UNCHANGED <<jobVars, nodeVars, connVars>>

\* TaskExecutor.WaitForFinish returns: the executor is terminal.
Finished(e) == execState[e] \in Terminal

\* ---------------------------------------------------------------- PushData

\* The references a stream header may name: producers push to the
\* partitions of an output plan.
PushTargets == {Reference(s, p) : s \in Stages, p \in OutParts}

\* Streams are numbered in the order the server accepts them.
Accepted(h) == \A x \in 1..(h - 1) : hpc[x] # "idle"

\* PushData, lines 179-182: the header does not parse.
PushDataBadHeader(h) ==
  /\ hpc[h] = "idle"
  /\ Accepted(h)
  /\ hpc' = [hpc EXCEPT ![h] = "done"]
  /\ hres' = [hres EXCEPT ![h] = "InvalidArgument"]
  /\ UNCHANGED <<htask, hexec>>
  /\ UNCHANGED createVars
  /\ UNCHANGED <<execState, runningTasks, pipes, pushes>>
  /\ UNCHANGED crdVars
  /\ UNCHANGED <<jobVars, nodeVars, connVars>>

\* The deferred delete is armed before the lookup, and runs on this return too.
PushDataNotFoundDeferred(h, t) ==
  /\ hpc' = [hpc EXCEPT ![h] = "returning"]
  /\ hres' = [hres EXCEPT ![h] = "InvalidArgument"]
  /\ htask' = [htask EXCEPT ![h] = t]
  /\ UNCHANGED hexec
  /\ UNCHANGED <<runningTasks, pushes>>

\* PushData, lines 183-186: no executor is registered under h.TaskID.
PushDataNotFound(h, t) ==
  /\ hpc' = [hpc EXCEPT ![h] = "done"]
  /\ hres' = [hres EXCEPT ![h] = "InvalidArgument"]
  /\ htask' = [htask EXCEPT ![h] = t]
  /\ UNCHANGED hexec
  /\ UNCHANGED <<runningTasks, pushes>>

\* PushData, lines 183-193: the lookup, and on success the deferred delete
\* is armed and the stream is bound to the executor's Input.
PushDataLookup(h, t) ==
  /\ hpc[h] = "idle"
  /\ Accepted(h)
  /\ IF getRunningTask(t) = NoSlot
     THEN PushDataNotFound(h, t)
     ELSE /\ hpc' = [hpc EXCEPT ![h] = "dispatch"]
          /\ htask' = [htask EXCEPT ![h] = t]
          /\ hexec' = [hexec EXCEPT ![h] = getRunningTask(t)]
          /\ pushes' = [pushes EXCEPT ![getRunningTask(t)] = @ \cup {h}]
          /\ UNCHANGED <<hres, runningTasks>>
  /\ UNCHANGED createVars
  /\ UNCHANGED <<execState, pipes>>
  /\ UNCHANGED crdVars
  /\ UNCHANGED <<jobVars, nodeVars, connVars>>

\* PushData, lines 194-196: Dispatch returns an error; PushData returns it.
PushDataDispatchFail(h) ==
  /\ hpc[h] = "dispatch"
  /\ pushes' = [pushes EXCEPT ![hexec[h]] = @ \ {h}]
  /\ hpc' = [hpc EXCEPT ![h] = "returning"]
  /\ hres' = [hres EXCEPT ![h] = "StreamError"]
  /\ UNCHANGED <<htask, hexec>>
  /\ UNCHANGED createVars
  /\ UNCHANGED <<execState, runningTasks, pipes>>
  /\ UNCHANGED crdVars
  /\ UNCHANGED <<jobVars, nodeVars, connVars>>

\* PushData, line 194: Dispatch returns nil, the stream has ended.
PushDataDispatchEnd(h) ==
  /\ hpc[h] = "dispatch"
  /\ pushes' = [pushes EXCEPT ![hexec[h]] = @ \ {h}]
  /\ hpc' = [hpc EXCEPT ![h] = "wait"]
  /\ UNCHANGED <<hres, htask, hexec>>
  /\ UNCHANGED createVars
  /\ UNCHANGED <<execState, runningTasks, pipes>>
  /\ UNCHANGED crdVars
  /\ UNCHANGED <<jobVars, nodeVars, connVars>>

\* The handler answers without waiting for the executor.
NoWaitForFinish(h) == TRUE

\* PushData, line 197: exec.WaitForFinish() has returned.
WaitedForFinish(h) == Finished(hexec[h])

\* PushData, lines 197-198: the wait is over and SendAndClose answers the
\* producer (sent: the acknowledgement went out).
PushDataAck(h, sent) ==
  /\ hpc[h] = "wait"
  /\ WaitedForFinish(h)
  /\ hpc' = [hpc EXCEPT ![h] = "returning"]
  /\ hres' = [hres EXCEPT ![h] = IF sent THEN "Ack" ELSE "SendError"]
  /\ UNCHANGED <<htask, hexec>>
  /\ UNCHANGED createVars
  /\ UNCHANGED <<execState, runningTasks, pipes, pushes>>
  /\ UNCHANGED crdVars
  /\ UNCHANGED <<jobVars, nodeVars, connVars>>

\* PushData, lines 187-191: the deferred delete(w.runningTasks, h.TaskID).
PushDataDeferred(h) ==
  /\ hpc[h] = "returning"
  /\ runningTasks' = [runningTasks EXCEPT ![htask[h]] = NoSlot]
  /\ hpc' = [hpc EXCEPT ![h] = "done"]
  /\ UNCHANGED <<hres, htask, hexec>>
  /\ UNCHANGED createVars
  /\ UNCHANGED <<execState, pipes, pushes>>
  /\ UNCHANGED crdVars
  /\ UNCHANGED <<jobVars, nodeVars, connVars>>

\* -------------------------------------------------------------------- Next

Next ==
  \/ \E r \in ReqIds, q \in Requests : CreateTasks(r, q)
  \/ \E r \in ReqIds : CreateTasksInvalid(r)
  \/ \E g \in Slots : createTaskCommit(g)
  \/ \E g \in Slots : createTaskCommitFail(g)
  \/ \E g \in Slots, id \in OutParts : newOutputWriter(g, id)
  \/ \E g \in Slots, id \in OutParts : newOutputWriterFail(g, id)
  \/ \E g \in Slots : createTaskRegister(g)
  \/ \E g \in Slots, reported \in BOOLEAN : createTaskExecutorFail(g, reported)
  \/ \E g \in Slots : createTaskLaunch(g)
  \/ \E r \in ReqIds : CreateTasksReturn(r)
  \/ \E e \in Slots : ExecRun(e)
  \/ \E e \in Slots, result \in Terminal : ExecFinish(e, result)
  \/ \E h \in PushIds : PushDataBadHeader(h)
  \/ \E h \in PushIds, t \in PushTargets : PushDataLookup(h, t)
  \/ \E h \in PushIds : PushDataDispatchFail(h)
  \/ \E h \in PushIds : PushDataDispatchEnd(h)
  \/ \E h \in PushIds, sent \in BOOLEAN : PushDataAck(h, sent)
  \/ \E h \in PushIds : PushDataDeferred(h)

Spec == Init /\ [][Next]_vars

\* Program steps are scheduled fairly: goroutines, executors and handlers
\* run on, coordinator calls return and an accepted stream ends. The
\* arrival of requests and of streams is the environment's.
FairSpec ==
  /\ Init
  /\ [][Next]_vars
  /\ \A g \in Slots :
       /\ WF_vars(createTaskCommit(g) \/ createTaskCommitFail(g))
       /\ WF_vars(\E id \in OutParts : newOutputWriter(g, id))
       /\ WF_vars(createTaskRegister(g))
       /\ WF_vars(createTaskLaunch(g))
       /\ WF_vars(ExecRun(g))
       /\ WF_vars(\E result \in Terminal : ExecFinish(g, result))
  /\ \A r \in ReqIds : WF_vars(CreateTasksReturn(r))
  /\ \A h \in PushIds :
       /\ WF_vars(PushDataDispatchFail(h) \/ PushDataDispatchEnd(h))
       /\ WF_vars(\E sent \in BOOLEAN : PushDataAck(h, sent))
       /\ WF_vars(PushDataDeferred(h))

\* ------------------------------------------------------------------ claims

\* Executor e is the one recorded in the registry under its reference.
Registered(e) == gpc[e] # "none" /\ runningTasks[TaskRef(e)] = e

\* go exec.Run() has been issued for e.
Started(e) == execState[e] \in {"Pending", "Running"} \cup Terminal

\* e has been started and is not terminal.
Live(e) == execState[e] \in {"Pending", "Running"}

\* C1: for every task reference at most one executor that has been started
\* and has not reached a terminal state exists. The code starts a second
\* executor when a reference is created again.
C1_AtMostOneExecutor ==
  \A t \in Refs : Cardinality({e \in ExecutorsOf(t) : Live(e)}) <= 1

\* The place of a status value in the order None, Pending, Running, terminal.
Rank(s) ==
  CASE s = "None" -> 0
    [] s = "Pending" -> 1
    [] s = "Running" -> 2
    [] OTHER -> 3

\* C2: status/tasks/<ref> changes only forward in the order Pending,
\* Running, {Succeeded, Failed}, and a terminal value is never overwritten.
\* jobManager.CreateTask puts Pending over whatever is stored.
C2_StatusForward ==
  [][\A t \in Refs :
       status'[t] # status[t] => Rank(status'[t]) > Rank(status[t])]_vars

\* C3: when PushData has returned the empty acknowledgement, the executor
\* the handler looked up under the header's task ID is terminal.
C3_AckAfterFinish ==
  \A h \in PushIds : hres[h] = "Ack" => execState[hexec[h]] \in Terminal

C3_Witness ==
  \E h \in PushIds : hres[h] = "Ack" /\ hpc[h] = "done"

\* C4: a PushData call whose header names a reference that is not in the
\* registry returns InvalidArgument, and no step of a call that returns
\* InvalidArgument changes the registry or an executor's input.
C4_PushToAbsentTask ==
  [][\A h \in PushIds :
       /\ (hpc[h] = "idle" /\ htask'[h] # NoRef /\ getRunningTask(htask'[h]) = NoSlot)
            => hres'[h] = "InvalidArgument"
       /\ (hpc'[h] # hpc[h] /\ hres'[h] = "InvalidArgument")
            => UNCHANGED <<runningTasks, pipes, pushes, execState>>]_vars

\* A call for an absent task has failed, and the task was registered later.
C4_Witness ==
  \E h \in PushIds :
    /\ hres[h] = "InvalidArgument"
    /\ htask[h] # NoRef
    /\ runningTasks[htask[h]] # NoSlot

\* C5: an executor's Input has at most one producer bound to it (a local
\* pipe or a push stream). Neither newOutputWriter nor PushData looks at
\* the producers already bound.
C5_SingleProducer ==
  \A e \in Slots : Cardinality(pipes[e]) + Cardinality(pushes[e]) <= 1

\* A sink has been built for output partition id of goroutine g.
SinkBuilt(g, id) == gpc[g] # "none" /\ gsink[g][id] # "none"

\* C6 as claimed: when the partition map places the downstream task on this
\* worker, where it is created, the sink is a local pipe, whatever the order
\* of the two stages' requests.
C6_AlwaysLocalPipe ==
  \A g \in Slots, id \in OutParts :
    ( /\ SinkBuilt(g, id)
      /\ req[g[1]].out[id] = SelfHost
      /\ \E e \in ExecutorsOf(DownstreamTask(g, id)) : execState[e] # "none" )
    => gsink[g][id] = "local"

\* C6, amended: the sink built for a partition is a local pipe, bound to the
\* Input of the registered executor, exactly when the partition map's host
\* is the worker's own and the downstream task is in the registry at the
\* moment newOutputWriter looks it up; otherwise it is a push stream.
C6_LocalPipeIffRegistered ==
  [][\A g \in Slots, id \in OutParts :
       (gpc[g] = "output" /\ gsink[g][id] = "none" /\ gsink'[g][id] # "none")
       => LET t == DownstreamTask(g, id)
              here == req[g[1]].out[id] = SelfHost /\ runningTasks[t] # NoSlot
          IN /\ gsink'[g][id] = (IF here THEN "local" ELSE "push")
             /\ here => pipes'[runningTasks[t]] = pipes[runningTasks[t]] \cup {g}
             /\ ~here => pipes' = pipes]_vars

\* A stage-A task placed with its stage-B consumer has a local pipe bound to
\* the consumer's Input.
C6_Witness ==
  \E g \in Slots, id \in OutParts :
    /\ SinkBuilt(g, id)
    /\ req[g[1]].out[id] = SelfHost
    /\ gsink[g][id] = "local"
    /\ \E e \in Slots : g \in pipes[e] /\ TaskRef(e) = DownstreamTask(g, id)

\* The task record and the initial status of g's task are in the coordinator.
Committed(g) == TaskRef(g) \in taskRec /\ status[TaskRef(g)] # "None"

\* A PushData handler has run its deferred delete for reference t.
RemovedByPush(t) ==
  \E h \in PushIds : hpc[h] = "done" /\ htask[h] = t /\ hexec[h] # NoSlot

\* C7 as claimed: at the moment CreateTasks returns success, every
\* partition's task is committed, started, and present in the registry.
C7_PresentOnSuccess ==
  [][\A r \in ReqIds : (rpc[r] = "running" /\ rpc'[r] = "ok") =>
       \A g \in Goroutines(r) :
         /\ Committed(g)
         /\ Started(g)
         /\ runningTasks[TaskRef(g)] # NoSlot]_vars

\* C7, amended: when CreateTasks has returned success, every partition's
\* task record and initial status are committed, its executor has been
\* started, and an executor is registered under its reference unless a
\* PushData handler for that reference has already removed the entry.
C7_CreatedOnSuccess ==
  \A r \in ReqIds : rpc[r] = "ok" =>
    \A g \in Goroutines(r) :
      /\ Committed(g)
      /\ Started(g)
      /\ runningTasks[TaskRef(g)] # NoSlot \/ RemovedByPush(TaskRef(g))

\* A request for two partitions has returned success, and the entry of one
\* of them is already gone.
C7_Witness ==
  \E r \in ReqIds :
    /\ rpc[r] = "ok"
    /\ Len(req[r].parts) = 2
    /\ req[r].parts[1] # req[r].parts[2]
    /\ \E g \in Goroutines(r) : runningTasks[TaskRef(g)] = NoSlot
    /\ \E g \in Goroutines(r) : Registered(g)

\* C8: when a partition's creation fails CreateTasks returns an error, and
\* neither the failing createTask nor the failing return removes a registry
\* entry or changes the state of an executor.
C8_FailureKeepsStarted ==
  [][/\ \A r \in ReqIds :
          (rpc[r] = "running" /\ rpc'[r] # "running"
             /\ \E g \in Goroutines(r) : gpc[g] = "err")
          => /\ rpc'[r] = "err"
             /\ UNCHANGED <<runningTasks, execState>>
     /\ \A g \in Slots :
          (gpc[g] # "err" /\ gpc'[g] = "err")
          => UNCHANGED <<runningTasks, execState>>]_vars

\* A request has failed on one partition and the executor of the other one
\* is registered and running.
C8_Witness ==
  \E r \in ReqIds :
    /\ rpc[r] = "err"
    /\ \E g \in Goroutines(r) : gpc[g] = "err"
    /\ \E g \in Goroutines(r) :
         gpc[g] = "ok" /\ Registered(g) /\ execState[g] = "Running"

\* C9: a push handler deletes a registry entry only when the entry's
\* executor is terminal. The deferred delete also runs when Dispatch fails,
\* and it deletes by key whatever executor is registered by then.
C9_DeleteOnlyTerminal ==
  [][\A t \in Refs :
       (runningTasks[t] # NoSlot /\ runningTasks'[t] = NoSlot)
       => execState[runningTasks[t]] \in Terminal]_vars

\* C10: a registered executor that is terminal and has no producer bound to
\* its Input is eventually removed from the registry. Only PushData removes
\* entries, so an executor no stream is pushed to stays.
C10_EventuallyRemoved ==
  \A e \in Slots :
    (Registered(e) /\ execState[e] \in Terminal
       /\ pipes[e] = {} /\ pushes[e] = {})
    ~> ~Registered(e)

\* The sum of the per-stage totalTasks counters.
StageTotals == stageTotal["A"] + stageTotal["B"]

\* Goroutine g's transaction commits in this step.
CommitStep(g) == gpc[g] = "create" /\ gpc'[g] = "output"

\* Goroutine g's transaction fails in this step.
CommitFailStep(g) == gpc[g] = "create" /\ gpc'[g] = "err"

\* C17: a CreateTask transaction that commits writes the task record and the
\* initial Pending status and adds exactly one to the totalTasks counter of
\* the task's stage and to that of the node; one that fails writes nothing,
\* makes createTask return an error and registers no executor; the counters
\* change in no other step, so each equals the number of commits.
C17_AtomicCreateTask ==
  [][/\ \A g \in Slots : CommitStep(g) =>
          /\ TaskRef(g) \in taskRec'
          /\ status'[TaskRef(g)] = "Pending"
          /\ stageTotal' = [stageTotal EXCEPT ![req[g[1]].stage] = @ + 1]
          /\ nodeTotal' = nodeTotal + 1
     /\ \A g \in Slots : CommitFailStep(g) =>
          /\ UNCHANGED crdVars
          /\ UNCHANGED <<runningTasks, execState>>
     /\ (\A g \in Slots : ~CommitStep(g)) => UNCHANGED <<taskRec, cntVars>>
     /\ nodeTotal' = StageTotals'
    ]_vars

\* One transaction has committed and another one has failed.
C17_Witness ==
  /\ nodeTotal = 1
  /\ \E g \in Slots : gpc[g] = "err" /\ TaskRef(g) \notin taskRec

\* PushData of stream h has returned the error of Dispatch.
StreamErrorReturned(h) == hpc[h] = "done" /\ hres[h] = "StreamError"

\* C18: after PushData has returned the error of Dispatch, the executor the
\* header names is Failed or becomes Failed.
C18_StreamErrorFailsExecutor ==
  \A h \in PushIds :
    StreamErrorReturned(h)
    ~> (hexec[h] # NoSlot /\ execState[hexec[h]] = "Failed")

\* ------------------------------------------------------------ node manager

\* A lease of twice the probe interval.
GrantedTTLDouble == 2 * LivenessProbeInterval

\* registerOrRefresh, line 105: the TTL of the lease asked for.
GrantedTTL == LivenessProbeInterval

\* The refresher returns at the first error.
OnRefreshErrorExit == "exit"

\* sendPeriodicLivenessProve, lines 94-97: an error of registerOrRefresh is
\* logged and the loop waits for the next tick.
OnRefreshError == "wait"

\* A nil dereference has ended the process.
Crashed == fpc = "panic" \/ upc = "panic"

Dec(x) == IF x > 0 THEN x - 1 ELSE 0

\* manager.List, lines 142-158: the nodes under nodes/ of the type asked for.
List(typ) == IF nodeRec /\ SelfType = typ THEN {SelfID} ELSE {}

\* crd.Put(nodes/<id>, n, WithLease(ttl)): the key is written and bound to
\* the lease, of which `left` clock steps remain.
PutUnderLease(left) ==
  /\ nodeRec' = TRUE
  /\ leaseLeft' = left
  /\ age' = 0

\* RegisterSelf is called (again after it failed).
RegisterSelf ==
  /\ ~Crashed
  /\ regpc \in {"idle", "failed"}
  /\ regpc' = "grant"
  /\ UNCHANGED <<reglease, recVars, self, tickVars, refVars, upc, stopVars>>
  /\ UNCHANGED <<jobVars, workerVars, connVars>>

\* registerOrRefresh in RegisterSelf, lines 105-108: GrantLease returns.
RegisterGrant(ok) ==
  /\ ~Crashed
  /\ regpc = "grant"
  /\ IF ok
       THEN regpc' = "put" /\ reglease' = GrantedTTL
       ELSE regpc' = "failed" /\ reglease' = 0
  /\ UNCHANGED <<recVars, self, tickVars, refVars, upc, stopVars>>
  /\ UNCHANGED <<jobVars, workerVars, connVars>>

\* RegisterSelf, lines 81-87: Put returns; on success m.self is set and the
\* refresher goroutine is started. A Put under an expired lease fails.
RegisterPut(ok) ==
  /\ ~Crashed
  /\ regpc = "put"
  /\ ok => reglease > 0
  /\ IF ok
       THEN /\ PutUnderLease(reglease)
            /\ self' = "set"
            /\ fpc' = "start"
            /\ regpc' = "done"
       ELSE /\ regpc' = "failed"
            /\ UNCHANGED <<recVars, self, fpc>>
  /\ reglease' = 0
  /\ UNCHANGED <<tickVars, fself, flease, refreshFailed, upc, stopVars>>
  /\ UNCHANGED <<jobVars, workerVars, connVars>>

\* sendPeriodicLivenessProve, line 92: the goroutine creates the ticker.
RefresherStart ==
  /\ ~Crashed
  /\ fpc = "start"
  /\ ticker' = "running"
  /\ tickLeft' = LivenessProbeInterval
  /\ fpc' = "wait"
  /\ UNCHANGED <<tickChan, fself, flease, refreshFailed>>
  /\ UNCHANGED <<recVars, self, regVars, upc, stopVars>>
  /\ UNCHANGED <<jobVars, workerVars, connVars>>

\* time.Ticker: the interval has passed, a tick is put into the channel
\* (dropped when one is still buffered).
TickFire ==
  /\ ~Crashed
  /\ ticker = "running"
  /\ tickLeft = 0
  /\ tickChan' = TRUE
  /\ tickLeft' = LivenessProbeInterval
  /\ UNCHANGED <<ticker, recVars, self, regVars, refVars, upc, stopVars>>
  /\ UNCHANGED <<jobVars, workerVars, connVars>>

\* sendPeriodicLivenessProve, lines 93-94: the loop receives a tick and reads
\* m.self for the call of registerOrRefresh.
RefresherTick ==
  /\ ~Crashed
  /\ fpc = "wait"
  /\ tickChan
  /\ tickChan' = FALSE
  /\ fself' = self
  /\ fpc' = "grant"
  /\ UNCHANGED <<ticker, tickLeft, flease, refreshFailed>>
  /\ UNCHANGED <<recVars, self, regVars, upc, stopVars>>
  /\ UNCHANGED <<jobVars, workerVars, connVars>>

\* registerOrRefresh in the refresher, lines 105-109: GrantLease returns;
\* building the key of the Put dereferences n.
RefreshGrant(ok) ==
  /\ ~Crashed
  /\ fpc = "grant"
  /\ IF ok
       THEN /\ fpc' = IF fself = "nil" THEN "panic" ELSE "put"
            /\ flease' = IF fself = "nil" THEN 0 ELSE GrantedTTL
            /\ UNCHANGED refreshFailed
       ELSE /\ fpc' = "err"
            /\ flease' = 0
            /\ refreshFailed' = TRUE
  /\ UNCHANGED <<fself, recVars, self, tickVars, regVars, upc, stopVars>>
  /\ UNCHANGED <<jobVars, workerVars, connVars>>

\* registerOrRefresh in the refresher, line 109: Put returns.
RefreshPut(ok) ==
  /\ ~Crashed
  /\ fpc = "put"
  /\ ok => flease > 0
  /\ IF ok
       THEN /\ PutUnderLease(flease)
            /\ fpc' = "wait"
            /\ UNCHANGED refreshFailed
       ELSE /\ fpc' = "err"
            /\ refreshFailed' = TRUE
            /\ UNCHANGED recVars
  /\ flease' = 0
  /\ UNCHANGED <<fself, self, tickVars, regVars, upc, stopVars>>
  /\ UNCHANGED <<jobVars, workerVars, connVars>>

\* sendPeriodicLivenessProve, lines 94-97: the error is logged.
RefresherLog ==
  /\ ~Crashed
  /\ fpc = "err"
  /\ fpc' = OnRefreshError
  /\ UNCHANGED <<fself, flease, refreshFailed>>
  /\ UNCHANGED <<recVars, self, tickVars, regVars, upc, stopVars>>
  /\ UNCHANGED <<jobVars, workerVars, connVars>>

\* The coordinator revokes the lease of nodes/<SelfID> at the end of its
\* TTL and deletes the key bound to it.
LeaseExpire ==
  /\ nodeRec
  /\ leaseLeft = 0
  /\ nodeRec' = FALSE
  /\ UNCHANGED <<leaseLeft, age, self, tickVars, regVars, refVars, upc, stopVars>>
  /\ UNCHANGED <<jobVars, workerVars, connVars>>

\* One clock step passes. A lease that is due is revoked first and a tick
\* that is due is delivered first.
Advance ==
  /\ ~(nodeRec /\ leaseLeft = 0)
  /\ ~(~Crashed /\ ticker = "running" /\ tickLeft = 0)
  /\ leaseLeft' = Dec(leaseLeft)
  /\ age' = IF age > LivenessProbeInterval THEN age ELSE age + 1
  /\ tickLeft' = IF ticker = "running" THEN Dec(tickLeft) ELSE tickLeft
  /\ reglease' = Dec(reglease)
  /\ flease' = Dec(flease)
  /\ UNCHANGED <<nodeRec, self, ticker, tickChan, regpc>>
  /\ UNCHANGED <<fpc, fself, refreshFailed, upc, stopVars>>
  /\ UNCHANGED <<jobVars, workerVars, connVars>>

\* UnregisterNode, lines 161-164: Delete of nodes/<nid> returns.
UnregisterDelete(ok) ==
  /\ ~Crashed
  /\ upc = "delete"
  /\ IF ok
       THEN /\ nodeRec' = FALSE
            /\ leaseLeft' = 0
            /\ upc' = "stop"
       ELSE /\ upc' = "failed"
            /\ UNCHANGED <<nodeRec, leaseLeft>>
  /\ UNCHANGED <<age, self, tickVars, regVars, refVars, stopVars>>
  /\ UNCHANGED <<jobVars, workerVars, connVars>>

\* UnregisterNode, lines 165-166: m.self.ID is compared and the ticker is
\* stopped; either pointer may be nil. Stop does not close the channel.
UnregisterStopTicker ==
  /\ ~Crashed
  /\ upc = "stop"
  /\ IF self = "nil" \/ ticker = "nil"
       THEN upc' = "panic" /\ UNCHANGED ticker
       ELSE upc' = "clear" /\ ticker' = "stopped"
  /\ UNCHANGED <<tickLeft, tickChan, recVars, self, regVars, refVars, stopVars>>
  /\ UNCHANGED <<jobVars, workerVars, connVars>>

\* UnregisterNode, lines 167-169: m.self is cleared.
UnregisterClear ==
  /\ ~Crashed
  /\ upc = "clear"
  /\ self' = "nil"
  /\ upc' = "done"
  /\ UNCHANGED <<recVars, tickVars, regVars, refVars, stopVars>>
  /\ UNCHANGED <<jobVars, workerVars, connVars>>

\* The channels m.conns holds.
CachedChans == {conns[h] : h \in Hosts} \ {NoChan}

\* manager.Close, line 173: the Range over m.conns begins.
CloseBegin ==
  /\ clpc' = "range"
  /\ clseen' = {}
  /\ clerr' = FALSE
  /\ closing' = CachedChans

\* manager.Close, lines 173-176: the Range visits host h and closes its
\* channel; closing a channel that is shut down already returns an error,
\* and an error ends the Range.
CloseStep(h) ==
  /\ ~Crashed
  /\ clpc = "range"
  /\ h \notin clseen
  /\ conns[h] # NoChan
  /\ IF chanState[conns[h]] = "Shutdown"
       THEN /\ clerr' = TRUE
            /\ clpc' = "done"
            /\ UNCHANGED <<clseen, chanState>>
       ELSE /\ chanState' = [chanState EXCEPT ![conns[h]] = "Shutdown"]
            /\ clseen' = clseen \cup {h}
            /\ UNCHANGED <<clerr, clpc>>
  /\ UNCHANGED <<closing, conns, chanHost, callVars>>
  /\ UNCHANGED <<jobVars, workerVars, nodeVars>>

\* manager.Close, line 177: the Range has visited every entry.
CloseEnd ==
  /\ ~Crashed
  /\ clpc = "range"
  /\ \A h \in Hosts : conns[h] # NoChan => h \in clseen
  /\ clpc' = "done"
  /\ UNCHANGED <<clseen, clerr, closing, chanVars, callVars>>
  /\ UNCHANGED <<jobVars, workerVars, nodeVars>>

\* Worker.Stop, lines 214-216: the server is stopped, the reporter closed
\* and UnregisterNode called with Self().ID.
Stop ==
  /\ ~Crashed
  /\ spc = "idle"
  /\ regpc = "done"
  /\ serverStopped' = TRUE
  /\ spc' = "unregister"
  /\ upc' = "delete"
  /\ UNCHANGED <<sres, recVars, self, tickVars, regVars, refVars>>
  /\ UNCHANGED <<jobVars, workerVars, connVars>>

\* Worker.Stop, lines 216-218: UnregisterNode returned an error, which Stop
\* returns.
StopUnregisterFailed ==
  /\ ~Crashed
  /\ spc = "unregister"
  /\ upc = "failed"
  /\ spc' = "done"
  /\ sres' = "err"
  /\ UNCHANGED <<serverStopped, recVars, self, tickVars, regVars, refVars, upc>>
  /\ UNCHANGED <<jobVars, workerVars, connVars>>

\* Worker.Stop, line 219: UnregisterNode returned nil, Close is called.
StopClose ==
  /\ ~Crashed
  /\ spc = "unregister"
  /\ upc = "done"
  /\ spc' = "close"
  /\ CloseBegin
  /\ UNCHANGED <<sres, serverStopped, recVars, self, tickVars, regVars, refVars, upc>>
  /\ UNCHANGED <<jobVars, workerVars, chanVars, callVars>>

\* Worker.Stop, line 219: Close returned, Stop returns its result.
StopReturn ==
  /\ ~Crashed
  /\ spc = "close"
  /\ clpc = "done"
  /\ spc' = "done"
  /\ sres' = IF clerr THEN "err" ELSE "nil"
  /\ UNCHANGED <<serverStopped, recVars, self, tickVars, regVars, refVars, upc>>
  /\ UNCHANGED <<jobVars, workerVars, connVars>>

\* The channel the cache of a started worker holds for host h.
CachedChan(h) == IF h = SelfHost THEN 1 ELSE 2

\* The worker has connected to some of the hosts before.
NodeInitCache ==
  \E S \in SUBSET Hosts :
    /\ conns = [h \in Hosts |-> IF h \in S THEN CachedChan(h) ELSE NoChan]
    /\ chanHost = [c \in ChanIds |->
                     IF \E h \in S : CachedChan(h) = c
                       THEN CHOOSE h \in S : CachedChan(h) = c ELSE ""]
    /\ chanState = [c \in ChanIds |->
                      IF \E h \in S : CachedChan(h) = c THEN "Ready" ELSE "none"]

NodeSpecInit == WorkerInit /\ NodeInit /\ NodeInitCache /\ CallsInit /\ JobInit

NodeNext ==
  \/ RegisterSelf
  \/ \E ok \in BOOLEAN : RegisterGrant(ok)
  \/ \E ok \in BOOLEAN : RegisterPut(ok)
  \/ RefresherStart
  \/ TickFire
  \/ RefresherTick
  \/ \E ok \in BOOLEAN : RefreshGrant(ok)
  \/ \E ok \in BOOLEAN : RefreshPut(ok)
  \/ RefresherLog
  \/ LeaseExpire
  \/ Advance
  \/ Stop
  \/ \E ok \in BOOLEAN : UnregisterDelete(ok)
  \/ UnregisterStopTicker
  \/ UnregisterClear
  \/ StopUnregisterFailed
  \/ StopClose
  \/ \E h \in Hosts : CloseStep(h)
  \/ CloseEnd
  \/ StopReturn

\* The node manager of one worker from NewManager to Worker.Stop.
NodeSpec == NodeSpecInit /\ [][NodeNext]_vars

\* RegisterSelf has returned nil and no UnregisterNode has been called.
Registering == regpc = "done" /\ upc = "idle"

\* C11: nodes/<SelfID> is present, and listed under its type, only while
\* the lease it was last put under is alive: that lease was granted for one
\* LivenessProbeInterval no later than the put, so the record is gone at
\* most one interval after the last put that succeeded.
C11_RecordWhileLeaseAlive ==
  /\ List(SelfType) = (IF nodeRec THEN {SelfID} ELSE {})
  /\ \A typ \in NodeTypes \ {SelfType} : List(typ) = {}
  /\ nodeRec => leaseLeft + age <= LivenessProbeInterval
  /\ ~nodeRec => leaseLeft = 0

\* Refreshes have failed, and one interval after the last put the node is
\* no longer listed.
C11_Witness ==
  /\ Registering
  /\ refreshFailed
  /\ age = LivenessProbeInterval
  /\ List(SelfType) = {}

\* C12: a refresh that fails changes neither the record nor m.self nor the
\* ticker, and after the error is logged the refresher waits for the next
\* tick; a refresh whose put succeeds leaves the record present.
C12_FailedRefreshKeepsRefresher ==
  [][/\ (fpc # "err" /\ fpc' = "err") =>
          /\ fpc \in {"grant", "put"}
          /\ UNCHANGED <<recVars, self, tickVars>>
     /\ (fpc = "err" /\ fpc' # "err") =>
          /\ fpc' = "wait"
          /\ UNCHANGED <<recVars, self, tickVars>>
     /\ (fpc = "put" /\ fpc' = "wait") => nodeRec' /\ leaseLeft' > 0
    ]_vars

\* A refresh failed, the record expired, and a later refresh has put it
\* again.
C12_Witness ==
  /\ Registering
  /\ refreshFailed
  /\ fpc = "wait"
  /\ nodeRec
  /\ age = 0

\* C13: after UnregisterNode(self) has returned nil, nodes/<SelfID> is
\* absent. A refresh that was granted its lease before the Delete puts the
\* record again after it; Ticker.Stop neither waits for it nor cancels it.
C13_AbsentAfterUnregister == upc = "done" => ~nodeRec

\* C16: when Worker.Stop has returned, manager.Close has run. Stop returns
\* the error of UnregisterNode without calling Close.
C16_StopClosesManager == spc = "done" => clpc = "done"

\* The refresher has created its ticker and has handled every tick.
RefresherIdle == ticker = "running" /\ fpc = "wait" /\ ~tickChan

\* C20: while the node is registered, no refresh has failed and the
\* refresher has handled every tick delivered to it, nodes/<SelfID> is
\* present. The first lease runs out one interval after its grant, the
\* first tick comes one interval after the ticker was created, which is
\* later.
C20_ContinuouslyVisible ==
  (Registering /\ ~refreshFailed /\ RefresherIdle) => nodeRec

\* ------------------------------------------------------- connection cache

\* Connect, line 126: the cached channel is replaced.
NeedsRedial(c) == chanState[c] = "TransientFailure"

\* The channel grpc.DialContext returns next.
NewChan == CHOOSE c \in ChanIds :
             chanState[c] = "none" /\ \A d \in 1..(c - 1) : chanState[d] # "none"

\* Connect(ctx, host) is called.
Connect(k, h) ==
  /\ cpc[k] \in {"idle", "done"}
  /\ cpc' = [cpc EXCEPT ![k] = "load"]
  /\ chost' = [chost EXCEPT ![k] = h]
  /\ cret' = [cret EXCEPT ![k] = NoChan]
  /\ UNCHANGED <<chanVars, closeVars>>
  /\ UNCHANGED <<jobVars, workerVars, nodeVars>>

\* Connect, lines 121-130: the cache is read; a hit whose state is not
\* TransientFailure is returned.
ConnectLoad(k) ==
  /\ cpc[k] = "load"
  /\ IF conns[chost[k]] = NoChan \/ NeedsRedial(conns[chost[k]])
       THEN /\ cpc' = [cpc EXCEPT ![k] = "dial"]
            /\ UNCHANGED cret
       ELSE /\ cpc' = [cpc EXCEPT ![k] = "done"]
            /\ cret' = [cret EXCEPT ![k] = conns[chost[k]]]
  /\ UNCHANGED <<chost, chanVars, closeVars>>
  /\ UNCHANGED <<jobVars, workerVars, nodeVars>>

\* establishNewConnection, lines 133-140: the blocking dial returns a
\* connected channel, which is stored under the host, or an error.
ConnectDial(k, ok) ==
  /\ cpc[k] = "dial"
  /\ ok => \E c \in ChanIds : chanState[c] = "none"
  /\ IF ok
       THEN /\ chanHost' = [chanHost EXCEPT ![NewChan] = chost[k]]
            /\ chanState' = [chanState EXCEPT ![NewChan] = "Ready"]
            /\ conns' = [conns EXCEPT ![chost[k]] = NewChan]
            /\ cret' = [cret EXCEPT ![k] = NewChan]
       ELSE UNCHANGED <<chanVars, cret>>
  /\ cpc' = [cpc EXCEPT ![k] = "done"]
  /\ UNCHANGED <<chost, closeVars>>
  /\ UNCHANGED <<jobVars, workerVars, nodeVars>>

\* The transport of channel c breaks.
ChannelFail(c) ==
  /\ chanState[c] = "Ready"
  /\ chanState' = [chanState EXCEPT ![c] = "TransientFailure"]
  /\ UNCHANGED <<conns, chanHost, callVars, closeVars>>
  /\ UNCHANGED <<jobVars, workerVars, nodeVars>>

\* Channel c reconnects.
ChannelRecover(c) ==
  /\ chanState[c] = "TransientFailure"
  /\ chanState' = [chanState EXCEPT ![c] = "Ready"]
  /\ UNCHANGED <<conns, chanHost, callVars, closeVars>>
  /\ UNCHANGED <<jobVars, workerVars, nodeVars>>

\* manager.Close is called.
Close ==
  /\ clpc \in {"idle", "done"}
  /\ CloseBegin
  /\ UNCHANGED <<chanVars, callVars>>
  /\ UNCHANGED <<jobVars, workerVars, nodeVars>>

ConnNext ==
  \/ \E k \in ConnIds, h \in Hosts : Connect(k, h)
  \/ \E k \in ConnIds : ConnectLoad(k)
  \/ \E k \in ConnIds, ok \in BOOLEAN : ConnectDial(k, ok)
  \/ \E c \in ChanIds : ChannelFail(c)
  \/ \E c \in ChanIds : ChannelRecover(c)
  \/ Close
  \/ \E h \in Hosts : CloseStep(h)
  \/ CloseEnd

\* The connection cache of one node manager.
ConnSpec == Init /\ [][ConnNext]_vars

\* Connect call k returns a channel it found in the cache.
ReturnsCached(k) == cpc[k] = "load" /\ cpc'[k] = "done"

\* C14: a channel Connect returns from the cache is neither in
\* TransientFailure nor shut down. Only TransientFailure is looked for, so
\* a channel closed by Close, which stays in the cache, is handed out.
C14_NeverReturnsFailedChannel ==
  [][\A k \in ConnIds :
       ReturnsCached(k) =>
         chanState[cret'[k]] \notin {"TransientFailure", "Shutdown"}]_vars

\* C15: when Close returns and no Connect has stored a channel meanwhile,
\* every cached channel is shut down. The Range ends at the first close
\* that fails, and the entries after it stay open.
C15_CloseClosesAll ==
  [][(clpc = "range" /\ clpc' = "done" /\ closing = CachedChans) =>
       \A c \in closing : chanState'[c] = "Shutdown"]_vars

\* ------------------------------------------------------------ running job

\* The last recorded error.
WaitResultLast(fs) ==
  IF fs.status = "Failed" THEN fs.errors[Len(fs.errors)] ELSE "nil"

\* Wait, lines 41-48: what Wait returns for the final status it received.
WaitResult(fs) == IF fs.status = "Failed" THEN fs.errors[1] ELSE "nil"

\* RunningJob.Status, lines 24-29.
Status(j) ==
  IF finalStatus[j] = NoStatus THEN "Running" ELSE finalStatus[j].status

\* RunningJob.Wait is called, lines 35-39.
Wait(j) ==
  /\ wpc[j] \in {"idle", "returned"}
  /\ wpc' = [wpc EXCEPT ![j] = "select"]
  /\ wret' = [wret EXCEPT ![j] = "none"]
  /\ UNCHANGED <<finalStatus, delivered>>
  /\ UNCHANGED <<workerVars, nodeVars, connVars>>

\* Wait, lines 40-43 and 48: the tracker delivers the final status.
WaitCompletion(j, fs) ==
  /\ wpc[j] = "select"
  /\ delivered' = [delivered EXCEPT ![j] = fs]
  /\ finalStatus' = [finalStatus EXCEPT ![j] = fs]
  /\ wret' = [wret EXCEPT ![j] = WaitResult(fs)]
  /\ wpc' = [wpc EXCEPT ![j] = "returned"]
  /\ UNCHANGED <<workerVars, nodeVars, connVars>>

\* Wait, lines 44-46: a termination signal arrives first, Abort is called.
WaitSignal(j) ==
  /\ wpc[j] = "select"
  /\ wpc' = [wpc EXCEPT ![j] = "abort"]
  /\ UNCHANGED <<finalStatus, delivered, wret>>
  /\ UNCHANGED <<workerVars, nodeVars, connVars>>

\* Abort, lines 61-63: ReportFailure returns.
AbortReport(j, ok) ==
  /\ wpc[j] = "abort"
  /\ IF ok
       THEN /\ wpc' = [wpc EXCEPT ![j] = "abortwait"]
            /\ UNCHANGED wret
       ELSE /\ wpc' = [wpc EXCEPT ![j] = "returned"]
            /\ wret' = [wret EXCEPT ![j] = "abort: error"]
  /\ UNCHANGED <<finalStatus, delivered>>
  /\ UNCHANGED <<workerVars, nodeVars, connVars>>

\* Abort, lines 68-75: the completion or a second signal arrives; the status
\* received here is dropped.
AbortReturn(j) ==
  /\ wpc[j] = "abortwait"
  /\ wpc' = [wpc EXCEPT ![j] = "returned"]
  /\ wret' = [wret EXCEPT ![j] = "Aborted"]
  /\ UNCHANGED <<finalStatus, delivered>>
  /\ UNCHANGED <<workerVars, nodeVars, connVars>>

JobNext ==
  \/ \E j \in JobIds : Wait(j)
  \/ \E j \in JobIds, fs \in FinalStatuses : WaitCompletion(j, fs)
  \/ \E j \in JobIds : WaitSignal(j)
  \/ \E j \in JobIds, ok \in BOOLEAN : AbortReport(j, ok)
  \/ \E j \in JobIds : AbortReturn(j)

\* The running jobs of one master.
JobSpec == Init /\ [][JobNext]_vars

\* Wait of job j returns in this step.
WaitReturns(j) == wpc[j] # "returned" /\ wpc'[j] = "returned"

\* C19: Status() is Running until Wait has received the final status, and
\* from then on the state that status carries, which is not Running; Wait
\* returns nil for a final status that is not Failed, its first error for a
\* Failed one, and what Abort returns when the signal came first: Aborted
\* after the failure report was written, the report's error otherwise.
C19_StatusAndWait ==
  [][\A j \in JobIds :
       /\ Status(j)' = IF delivered'[j] = NoStatus THEN "Running"
                       ELSE delivered'[j].status
       /\ delivered[j] # NoStatus => Status(j)' # "Running"
       /\ WaitReturns(j) =>
            CASE wpc[j] = "select" ->
                   /\ delivered'[j] \in FinalStatuses
                   /\ delivered'[j].status # "Failed" => wret'[j] = "nil"
                   /\ delivered'[j].status = "Failed"
                        => wret'[j] = delivered'[j].errors[1]
              [] wpc[j] = "abort" -> wret'[j] = "abort: error"
              [] wpc[j] = "abortwait" -> wret'[j] = "Aborted"
    ]_vars

\* One job failed with two different errors and Wait returned the first;
\* for another Wait returned Aborted and Status() is still Running.
C19_Witness ==
  \E j, k \in JobIds :
    /\ wpc[j] = "returned"
    /\ Status(j) = "Failed"
    /\ Len(finalStatus[j].errors) = 2
    /\ finalStatus[j].errors[1] # finalStatus[j].errors[2]
    /\ wret[j] = finalStatus[j].errors[1]
    /\ wpc[k] = "returned"
    /\ wret[k] = "Aborted"
    /\ Status(k) = "Running"

\* Channel c was dialed and has not been closed.
Open(c) == chanState[c] \in {"Ready", "TransientFailure"}

\* C21: every channel that was dialed and is not closed is the one the
\* cache holds for its host. The Store after a dial replaces whatever the
\* cache holds, without closing it: the channel of a concurrent Connect for
\* the same host, or the channel in TransientFailure that is re-dialed.
C21_NoLeakedChannel ==
  \A c \in ChanIds : Open(c) => conns[chanHost[c]] = c

\* C22: UnregisterNode and the refresher never dereference a nil ticker or
\* a nil self: the ticker exists once UnregisterNode is past stopping it,
\* and the refresher passes no nil self to registerOrRefresh. The ticker is
\* created by the goroutine, which may not have run yet, and a tick that
\* was buffered before Ticker.Stop is taken after m.self was cleared.
C22_NoNilUse ==
  /\ ~Crashed
  /\ upc \in {"clear", "done"} => ticker # "nil"
  /\ fpc \in {"grant", "put"} => fself # "nil"

====
